---- MODULE Spec2Model ----
(***************************************************************************)
(* A model of the zfilexfer receiving side: the Arbitrator (admission      *)
(* queue, slot counter, timer task), the per-peer File (pending chunk map, *)
(* chunk-error counter), the Chunk write tasks and the Server reactor that *)
(* multiplexes the router socket, the sink socket and the arbitrator       *)
(* back-channel.                                                           *)
(*                                                                         *)
(* One action stands for one call of Server::recv (one frame taken from    *)
(* one socket), one wakeup of the Timer, one finished write task, or one   *)
(* second of wall-clock time.                                              *)
(***************************************************************************)
EXTENDS Integers, Sequences, FiniteSets, Bags, TLC

(***************************************************************************)
(* Bounds of the model.                                                    *)
(***************************************************************************)
MaxSlots == 1        \* upload_slots is drawn from 0..MaxSlots
MaxSize == 2         \* announced file sizes are drawn from 0..MaxSize
MaxChunkSize == 1    \* announced chunk sizes are drawn from 1..MaxChunkSize (and one huge value)
MaxNew == 2          \* number of NEW frames that reach File::create
MaxSink == 1         \* unread sink frames per pipe, and write tasks running or unread
MaxPipe == 0         \* pulls waiting on the back-channel when a peer, a task or the timer acts
MaxFail == 1         \* failure frames posted to the sink (Spec)
MaxRetryFail == 6    \* failure frames posted to the sink (SpecRetry)
MaxRetrySlots == 7   \* the larger of the two budgets of SpecRetry
MaxLen == 3          \* byte length of the file the sending client uploads
MaxXferFail == 1     \* failure frames posted to the sink (SpecTransfer)
MaxXferSink == 2     \* write tasks running or unread (SpecTransfer)

Peers == {"abc", "def"}

(***************************************************************************)
(* Program constants.                                                      *)
(***************************************************************************)
MAX_CHUNK_ERR == 5
CHUNK_TIMEOUT == 1

\* u64 / i64 of the source, scaled to Width bits: `size as i64` and
\* `chunk_size as i64` reinterpret the top bit as the sign.
Width == 3
MaxI == 2 ^ (Width - 1) - 1
MinI == 0 - 2 ^ (Width - 1)
AsSigned(u) == IF u > MaxI THEN u - 2 ^ Width ELSE u

Sizes == 0 .. MaxSize
ChunkSizes == (1 .. MaxChunkSize) \cup {2 ^ Width - 2}
Indices == 0 .. MaxSize

None == -1

(***************************************************************************)
(* Error descriptions (error.rs) and the frames the reactor sends.         *)
(***************************************************************************)
\* descriptions that do not tell one rejection from another
Description_generic(err) == "Invalid request"

Description(err) ==
    CASE err = "ChunkIndex" -> "Chunk index not in file"
      [] err = "FailChecksum" -> "Uploaded file does not match expected CRC"
      [] err = "FileFail" -> "Failed to upload file"
      [] err = "InvalidRequest" -> "Invalid request"
      [] err = "Io" -> "description of the io::Error"
      [] err = "JsonDecoder" -> "description of the json::DecoderError"

\* an error reply that is not routed to the peer
ErrFrame_unrouted(router_id, err) == [to |-> "", body |-> <<"Err", Description(err)>>]

\* ZMsg::new_err(err) with the router id pushed in front
ErrFrame(router_id, err) == [to |-> router_id, body |-> <<"Err", Description(err)>>]
\* ZMsg::new_ok() with the router id pushed in front
OkFrame(router_id) == [to |-> router_id, body |-> <<"Ok">>]

(***************************************************************************)
(* TimedChunk.  timestamp is None, or the whole seconds elapsed since      *)
(* start() (saturating at CHUNK_TIMEOUT, beyond which nothing changes).    *)
(***************************************************************************)
TimedChunk(router_id, index) == [router_id |-> router_id, index |-> index, timestamp |-> None]
start(c) == [c EXCEPT !.timestamp = 0]
is_started(c) == c.timestamp # None
is_expired(c) == IF c.timestamp # None THEN c.timestamp >= CHUNK_TIMEOUT ELSE FALSE

\* the pull the arbitrator writes to its socket: router_id | "CHUNK" | index
PullMsg(c) == [to |-> c.router_id, body |-> <<"CHUNK", ToString(c.index)>>]

(***************************************************************************)
(* Arbitrator.  An arbitrator value is [queue, slots, msgs]: msgs are the  *)
(* pulls written to the arbitrator's socket, oldest first.                 *)
(***************************************************************************)
\* request() without the is_started test
RECURSIVE RequestWalk_restart(_, _, _, _)
RequestWalk_restart(q, i, s, msgs) ==
    IF i > Len(q) \/ s = 0
    THEN [queue |-> q, slots |-> s, msgs |-> msgs]
    ELSE RequestWalk_restart([q EXCEPT ![i] = start(q[i])], i + 1, s - 1,
                             Append(msgs, PullMsg(q[i])))

RECURSIVE RequestWalk(_, _, _, _)
RequestWalk(q, i, s, msgs) ==
    IF i > Len(q) \/ s = 0
    THEN [queue |-> q, slots |-> s, msgs |-> msgs]
    ELSE IF ~is_started(q[i])
         THEN RequestWalk([q EXCEPT ![i] = start(q[i])], i + 1, s - 1, Append(msgs, PullMsg(q[i])))
         ELSE RequestWalk(q, i + 1, s, msgs)

Arbitrator_request(arb) == RequestWalk(arb.queue, 1, arb.slots, arb.msgs)

\* queue() that starts the entry and writes its pull without asking for a slot
Arbitrator_queue_eager(arb, router_id, index) ==
    [arb EXCEPT !.queue = Append(arb.queue, start(TimedChunk(router_id, index))),
                !.msgs = Append(arb.msgs, PullMsg(TimedChunk(router_id, index)))]

Arbitrator_queue(arb, router_id, index) ==
    Arbitrator_request([arb EXCEPT !.queue = Append(arb.queue, TimedChunk(router_id, index))])

\* position of the first entry for (router_id, index), 0 if there is none
FindEntry(q, router_id, index) ==
    LET hits == {x \in 1 .. Len(q) : q[x].router_id = router_id /\ q[x].index = index}
    IN IF hits = {} THEN 0 ELSE CHOOSE x \in hits : \A y \in hits : x <= y

RemoveAt(q, i) == SubSeq(q, 1, i - 1) \o SubSeq(q, i + 1, Len(q))

\* [ok, arb]: ok is FALSE for Err(ChunkIndex)
Arbitrator_release(arb, router_id, index) ==
    LET i == FindEntry(arb.queue, router_id, index)
    IN IF i = 0
       THEN [ok |-> FALSE, arb |-> arb]
       ELSE [ok |-> TRUE,
             arb |-> Arbitrator_request([arb EXCEPT !.queue = RemoveAt(arb.queue, i),
                                                    !.slots = arb.slots + 1])]

(***************************************************************************)
(* File.  chunks is the key set of the pending map.  nchunks (the number   *)
(* of Chunks create_file made) and completed (per index, the successful    *)
(* completions applied to this File) are history the code does not keep.   *)
(***************************************************************************)
\* the loop of create_file: [arb, n, overflow]; overflow is TRUE when
\* `size_ctr -= chunk_size as i64` left the i64 range in the last iteration
RECURSIVE CreateLoop(_, _, _, _, _)
CreateLoop(arb, router_id, size_ctr, index, step) ==
    IF ~(size_ctr > 0)
    THEN [arb |-> arb, n |-> index, overflow |-> FALSE]
    ELSE LET queued == Arbitrator_queue(arb, router_id, index)
         IN IF size_ctr - step > MaxI
            THEN [arb |-> queued, n |-> index + 1, overflow |-> TRUE]
            ELSE CreateLoop(queued, router_id, size_ctr - step, index + 1, step)

File_create_file(arb, router_id, size, chunk_size) ==
    CreateLoop(arb, router_id, AsSigned(size), 0, AsSigned(chunk_size))

NewFile(size, chunk_size, n) ==
    [size |-> size, chunk_size |-> chunk_size, chunks |-> 0 .. (n - 1),
     chunk_error_cnt |-> 0, nchunks |-> n, completed |-> [i \in 0 .. (n - 1) |-> 0]]

\* sink() that re-queues a failed chunk whatever the error counter says
File_sink_unbounded(file, arb, router_id, index, success) ==
    IF success
    THEN IF index \notin file.chunks
         THEN [ok |-> FALSE, file |-> file, arb |-> arb]
         ELSE LET rel == Arbitrator_release(arb, router_id, index)
              IN IF ~rel.ok
                 THEN [ok |-> FALSE, file |-> file, arb |-> arb]
                 ELSE [ok |-> TRUE,
                       file |-> [file EXCEPT !.chunks = file.chunks \ {index},
                                             !.completed[index] = @ + 1],
                       arb |-> rel.arb]
    ELSE IF index \notin file.chunks
         THEN [ok |-> FALSE, file |-> file, arb |-> arb]
         ELSE [ok |-> TRUE,
               file |-> [file EXCEPT !.chunk_error_cnt = @ + 1],
               arb |-> Arbitrator_queue(arb, router_id, index)]

\* [ok, file, arb]: ok is FALSE for Err(ChunkIndex)
\* sink() that queues the chunk again on a failure after the counter saturated
File_sink_requeue(file, arb, router_id, index, success) ==
    IF success
    THEN IF index \notin file.chunks
         THEN [ok |-> FALSE, file |-> file, arb |-> arb]
         ELSE LET rel == Arbitrator_release(arb, router_id, index)
              IN IF ~rel.ok
                 THEN [ok |-> FALSE, file |-> file, arb |-> arb]
                 ELSE [ok |-> TRUE,
                       file |-> [file EXCEPT !.chunks = file.chunks \ {index},
                                             !.completed[index] = @ + 1],
                       arb |-> rel.arb]
    ELSE IF index \notin file.chunks
         THEN [ok |-> FALSE, file |-> file, arb |-> arb]
         ELSE [ok |-> TRUE,
               file |-> [file EXCEPT !.chunk_error_cnt =
                                        IF @ < MAX_CHUNK_ERR THEN @ + 1 ELSE @],
               arb |-> Arbitrator_queue(arb, router_id, index)]

File_sink(file, arb, router_id, index, success) ==
    IF success
    THEN IF index \notin file.chunks
         THEN [ok |-> FALSE, file |-> file, arb |-> arb]
         ELSE LET rel == Arbitrator_release(arb, router_id, index)
              IN IF ~rel.ok
                 THEN [ok |-> FALSE, file |-> file, arb |-> arb]
                 ELSE [ok |-> TRUE,
                       file |-> [file EXCEPT !.chunks = file.chunks \ {index},
                                             !.completed[index] = @ + 1],
                       arb |-> rel.arb]
    ELSE IF file.chunk_error_cnt < MAX_CHUNK_ERR
         THEN IF index \notin file.chunks
              THEN [ok |-> FALSE, file |-> file, arb |-> arb]
              ELSE [ok |-> TRUE,
                    file |-> [file EXCEPT !.chunk_error_cnt = @ + 1],
                    arb |-> Arbitrator_queue(arb, router_id, index)]
         ELSE [ok |-> TRUE, file |-> file, arb |-> arb]

\* is_complete() that is satisfied with one chunk still pending
is_complete_early(file) == Cardinality(file.chunks) <= 1

is_complete(file) == Cardinality(file.chunks) = 0
\* is_error() that needs one failure more
is_error_late(file) == file.chunk_error_cnt > MAX_CHUNK_ERR

is_error(file) == file.chunk_error_cnt >= MAX_CHUNK_ERR

(***************************************************************************)
(* File contents.  A byte is 0 or 1; a file on disk is [exists, bytes].    *)
(***************************************************************************)
Bytes == {0, 1}

Absent == [exists |-> FALSE, bytes |-> <<>>]
Present(bytes) == [exists |-> TRUE, bytes |-> bytes]

Min(a, b) == IF a < b THEN a ELSE b
Max(a, b) == IF a > b THEN a ELSE b

Zeros(n) == [k \in 1 .. n |-> 0]

\* fh.set_len(size) on a file just created: size zero bytes
SetLen(size) == Present(Zeros(size))

\* a send that reads from the start of the chunk to the end of the file
ChunkBytes_rest(bytes, chunk_size, index) ==
    SubSeq(bytes, chunk_size * index + 1, Len(bytes))

\* Chunk::send: the bytes [start, start + buf_size) of the file
ChunkBytes(bytes, chunk_size, index) ==
    LET file_size == Len(bytes)
        start0 == chunk_size * index
        buf_size == IF (start0 + chunk_size) > file_size
                    THEN file_size - start0
                    ELSE chunk_size
    IN SubSeq(bytes, start0 + 1, start0 + buf_size)

\* seek(Start(offset)) then write_all(data): a gap past the end reads as zeros
WriteAt(bytes, offset, data) ==
    [k \in 1 .. Max(Len(bytes), offset + Len(data)) |->
        IF k > offset /\ k <= offset + Len(data) THEN data[k - offset]
        ELSE IF k <= Len(bytes) THEN bytes[k]
        ELSE 0]

\* the write task of Chunk::do_recv: open(create(false)), seek, write_all
WriteTask(file, chunk_size, index, data) ==
    Present(WriteAt(file.bytes, index * chunk_size, data))

\* calc_crc reads into a buffer of BufLen bytes (1024 in the source, scaled)
\* and feeds the WHOLE buffer to the digest after every read, whatever the
\* number of bytes the read returned
BufLen == 2
CrcWidth == 4
CrcPoly == 3   \* x^4 + x + 1 (the source uses the 64-bit ECMA polynomial)

\* the bytes the digest is fed: buf after each read of up to BufLen bytes
RECURSIVE DigestStream(_, _, _)
DigestStream(bytes, pos, buf) ==
    IF pos >= Len(bytes)
    THEN <<>>
    ELSE LET n == Min(BufLen, Len(bytes) - pos)
             filled == [k \in 1 .. BufLen |-> IF k <= n THEN bytes[pos + k] ELSE buf[k]]
         IN filled \o DigestStream(bytes, pos + n, filled)

\* bitwise exclusive or of two values of k bits
RECURSIVE Xor(_, _, _)
Xor(x, y, k) ==
    IF k = 0 THEN 0
    ELSE (((x % 2) + (y % 2)) % 2) + 2 * Xor(x \div 2, y \div 2, k - 1)

\* one step of the shift register of a CRC of CrcWidth bits
CrcStep(reg, b) ==
    LET top == (reg \div (2 ^ (CrcWidth - 1))) % 2
        shifted == (reg * 2) % (2 ^ CrcWidth)
    IN IF ((top + b) % 2) = 1 THEN Xor(shifted, CrcPoly, CrcWidth) ELSE shifted

RECURSIVE CrcOf(_, _, _)
CrcOf(stream, k, reg) ==
    IF k > Len(stream) THEN reg ELSE CrcOf(stream, k + 1, CrcStep(reg, stream[k]))

calc_crc(bytes) == CrcOf(DigestStream(bytes, 0, Zeros(BufLen)), 1, 2 ^ CrcWidth - 1)

\* the paths of the receiver: the committed path, its backup, staging files
CommittedPath == "file"
BackupSuffix == ".bk"
BackupPath == CommittedPath \o BackupSuffix
StagingPath(counter) == "." \o CommittedPath \o ToString(counter)
MaxCounter == 2
Paths == {CommittedPath, BackupPath} \cup {StagingPath(k) : k \in 0 .. MaxCounter}

\* File::temporary_filename: the first staging name that does not exist
temporary_filename(d) ==
    LET free == {k \in 0 .. MaxCounter : ~d[StagingPath(k)].exists}
    IN StagingPath(CHOOSE k \in free : \A j \in free : k <= j)

\* fs::rename(from, to) that loses the data
Rename_lost(d, from, to) ==
    [ok |-> TRUE, disk |-> [d EXCEPT ![from] = Absent]]

\* fs::rename(from, to): [ok, disk]; fails when `from` does not exist
Rename(d, from, to) ==
    IF ~d[from].exists
    THEN [ok |-> FALSE, disk |-> d]
    ELSE [ok |-> TRUE, disk |-> [d EXCEPT ![to] = d[from], ![from] = Absent]]

\* save() that renames without comparing checksums
File_save_unchecked(d, crc, upload_path, backup_existing) ==
    LET b == IF backup_existing # "None"
             THEN Rename(d, CommittedPath, BackupPath)
             ELSE [ok |-> TRUE, disk |-> d]
    IN IF ~b.ok
       THEN [result |-> "Io", disk |-> b.disk]
       ELSE LET r == Rename(b.disk, upload_path, CommittedPath)
            IN IF r.ok THEN [result |-> "Ok", disk |-> r.disk]
               ELSE [result |-> "Io", disk |-> r.disk]

\* File::save for a File with the announced crc, staging path and backup
\* suffix (None or BackupSuffix): [result, disk]
File_save(d, crc, upload_path, backup_existing) ==
    IF crc # calc_crc(d[upload_path].bytes)
    THEN [result |-> "FailChecksum", disk |-> d]
    ELSE LET b == IF backup_existing # "None"
                  THEN Rename(d, CommittedPath, BackupPath)
                  ELSE [ok |-> TRUE, disk |-> d]
         IN IF ~b.ok
            THEN [result |-> "Io", disk |-> b.disk]
            ELSE LET r == Rename(b.disk, upload_path, CommittedPath)
                 IN IF r.ok THEN [result |-> "Ok", disk |-> r.disk]
                    ELSE [result |-> "Io", disk |-> r.disk]

(***************************************************************************)
(* State.                                                                  *)
(***************************************************************************)
VARIABLES
    upload_slots,   \* the budget given to Server::new (Arbitrator.slots at construction)
    slots,          \* Arbitrator.slots
    queue,          \* Arbitrator.queue: sequence of TimedChunks
    pipe,           \* pulls written by the arbitrator, not yet forwarded to the router socket
    files,          \* Server.files: router id -> File
    writing,        \* <<router_id, index>> of the Chunks whose write task has not posted yet
    sink_worker,    \* sink frames posted by write tasks (a bag: one pipe per task)
    sink_timer,     \* sink frames posted by the Timer (one pipe, in order)
    out,            \* frames handed to the router socket by the step just taken
    fatal,          \* Server::recv returned Err, or the reactor thread panicked
    news,           \* number of NEW frames that reached File::create
    fails,          \* number of failure frames posted to the sink
    pulls,          \* per peer and index, pulls the arbitrator emitted since the peer's File was inserted
    last,           \* what the step just taken was
    disk,           \* the receiver's file system: path -> [exists, bytes]
    meta,           \* router id -> crc, upload_path and backup_existing of the peer's File
    payload,        \* <<router_id, index>> -> staging path, offset and data of the running write task
    wire,           \* frames the sending client wrote to its socket, not yet read by the reactor
    inbox,          \* frames the router socket delivered to the sending client, not yet read
    client,         \* the sending client: its File and where File::send stands
    timer_at,       \* Timer::run: 0 between walks, else the queue entry its walk stands at,
                    \* the read guard of Arbitrator.queue held
    reactor         \* "idle", or "sink": a sink frame is read and File::sink waits for
                    \* the write guard of Arbitrator.queue

svars == <<upload_slots, slots, queue, pipe, files, writing, sink_worker, sink_timer,
           out, fatal, news, fails, pulls, last>>

xvars == <<disk, meta, payload, wire, inbox, client>>

lvars == <<timer_at, reactor>>

vars == <<svars, xvars, lvars>>

Arb == [queue |-> queue, slots |-> slots, msgs |-> <<>>]

NoStep == [op |-> "none", peer |-> "", index |-> None, success |-> FALSE,
           ret |-> "ok", save |-> "none"]
Step(op, peer, index, success, ret, save) ==
    [op |-> op, peer |-> peer, index |-> index, success |-> success,
     ret |-> ret, save |-> save]

SinkMsg(router_id, index, flag) == [router_id |-> router_id, index |-> index, flag |-> flag]

InFlight == Cardinality(writing) + BagCardinality(sink_worker)

\* number of pulls for (router_id, index) among msgs
CountPulls(msgs, router_id, index) ==
    Cardinality({k \in 1 .. Len(msgs) :
                    msgs[k] = PullMsg(TimedChunk(router_id, index))})

AddPulls(cnt, msgs) ==
    [p \in Peers |-> [i \in Indices |-> cnt[p][i] + CountPulls(msgs, p, i)]]

ZeroPulls == [i \in Indices |-> 0]

\* the completions posted when the write tasks in `tasks` are joined: those
\* in `good` wrote their payload, the others did not
Joined(tasks, good) ==
    LET msg(t) == SinkMsg(t[1], t[2], IF t \in good THEN "1" ELSE "0")
    IN SetToBag({msg(t) : t \in tasks})

NoClient == [state |-> "none", bytes |-> <<>>, chunk_size |-> 0, backup_existing |-> "None",
             crc |-> 0, chunks |-> {}, error |-> ""]

InitServer(budgets) ==
    /\ upload_slots \in budgets
    /\ slots = upload_slots
    /\ queue = <<>>
    /\ pipe = <<>>
    /\ files = <<>>
    /\ writing = {}
    /\ sink_worker = EmptyBag
    /\ sink_timer = <<>>
    /\ out = <<>>
    /\ fatal = FALSE
    /\ news = 0
    /\ fails = 0
    /\ pulls = [p \in Peers |-> ZeroPulls]
    /\ last = NoStep
    /\ timer_at = 0
    /\ reactor = "idle"

\* no sending client, nothing on disk
InitIdle ==
    /\ disk = [p \in Paths |-> Absent]
    /\ meta = <<>>
    /\ payload = <<>>
    /\ wire = <<>>
    /\ inbox = <<>>
    /\ client = NoClient

InitWith(budgets) == InitServer(budgets) /\ InitIdle

Init == InitWith(0 .. MaxSlots)

(***************************************************************************)
(* Server::recv on the router socket.                                      *)
(***************************************************************************)
\* NEW with a field that does not parse: reply_err(InvalidRequest)
RecvNewInvalid(router_id) ==
    /\ ~fatal
    /\ out' = <<ErrFrame(router_id, "InvalidRequest")>>
    /\ last' = Step("NEW", router_id, None, FALSE, "reply_err", "none")
    /\ UNCHANGED <<upload_slots, slots, queue, pipe, files, writing, sink_worker,
                   sink_timer, fatal, news, fails, pulls>>

\* NEW whose File::create fails before create_file (create_dir_all, open, set_len)
RecvNewIo(router_id) ==
    /\ ~fatal
    /\ out' = <<ErrFrame(router_id, "Io")>>
    /\ last' = Step("NEW", router_id, None, FALSE, "reply_err", "none")
    /\ UNCHANGED <<upload_slots, slots, queue, pipe, files, writing, sink_worker,
                   sink_timer, fatal, news, fails, pulls>>

\* NEW that reaches create_file.  checked: the build traps integer overflow.
\* good: the write tasks of the peer's previous File that wrote their payload.
RecvNew(router_id, size, chunk_size, options_ok, checked, good, maxnew, maxfail) ==
    /\ ~fatal
    /\ Len(pipe) <= MaxPipe
    /\ news < maxnew
    /\ size <= MaxI     \* else set_len(size) fails: RecvNewIo
    /\ news' = news + 1
    /\ LET r == File_create_file(Arb, router_id, size, chunk_size)
           dropped == {t \in writing : t[1] = router_id}
       IN /\ slots' = r.arb.slots
          /\ queue' = r.arb.queue
          /\ pipe' = pipe \o r.arb.msgs
          /\ IF r.overflow /\ checked
             THEN \* panic: attempt to subtract with overflow
                  /\ good = {}
                  /\ fatal' = TRUE
                  /\ out' = <<>>
                  /\ pulls' = AddPulls(pulls, r.arb.msgs)
                  /\ last' = Step("NEW", router_id, None, FALSE, "panic", "none")
                  /\ UNCHANGED <<files, writing, sink_worker, fails>>
             ELSE IF ~options_ok
             THEN \* FileOptions::decode failed after the chunks were queued
                  /\ good = {}
                  /\ out' = <<ErrFrame(router_id, "JsonDecoder")>>
                  /\ pulls' = AddPulls(pulls, r.arb.msgs)
                  /\ last' = Step("NEW", router_id, None, FALSE, "reply_err", "none")
                  /\ UNCHANGED <<files, writing, sink_worker, fatal, fails>>
             ELSE \* files.insert: a File the peer already had is dropped, and
                  \* dropping its Chunks joins their write tasks
                  /\ good \subseteq dropped
                  /\ fails + Cardinality(dropped \ good) <= maxfail
                  /\ fails' = fails + Cardinality(dropped \ good)
                  /\ files' = [p \in DOMAIN files \cup {router_id} |->
                                  IF p = router_id THEN NewFile(size, chunk_size, r.n)
                                  ELSE files[p]]
                  /\ sink_worker' = sink_worker (+) Joined(dropped, good)
                  /\ writing' = writing \ dropped
                  /\ out' = <<>>
                  /\ pulls' = AddPulls([pulls EXCEPT ![router_id] = ZeroPulls], r.arb.msgs)
                  /\ last' = Step("NEW", router_id, None, FALSE, "ok", "none")
                  /\ UNCHANGED fatal
    /\ UNCHANGED <<upload_slots, sink_timer>>

\* a CHUNK branch that drops such a frame without a reply
RecvChunkInvalid_silent(router_id) ==
    /\ ~fatal
    /\ out' = <<>>
    /\ last' = Step("CHUNK", router_id, None, FALSE, "reply_err", "none")
    /\ UNCHANGED <<upload_slots, slots, queue, pipe, files, writing, sink_worker,
                   sink_timer, fatal, news, fails, pulls>>

\* CHUNK from a peer without a File, or with an index that does not parse:
\* reply_err(InvalidRequest)
RecvChunkInvalid(router_id) ==
    /\ ~fatal
    /\ out' = <<ErrFrame(router_id, "InvalidRequest")>>
    /\ last' = Step("CHUNK", router_id, None, FALSE, "reply_err", "none")
    /\ UNCHANGED <<upload_slots, slots, queue, pipe, files, writing, sink_worker,
                   sink_timer, fatal, news, fails, pulls>>

\* CHUNK | index | bytes whose index is not in the pending map: File::recv
\* returns Err(ChunkIndex)
RecvChunkIndex(router_id, index) ==
    /\ ~fatal
    /\ router_id \in DOMAIN files
    /\ index \notin files[router_id].chunks
    /\ out' = <<ErrFrame(router_id, "ChunkIndex")>>
    /\ last' = Step("CHUNK", router_id, index, FALSE, "reply_err", "none")
    /\ UNCHANGED <<upload_slots, slots, queue, pipe, files, writing, sink_worker,
                   sink_timer, fatal, news, fails, pulls>>

\* CHUNK | index | bytes for a pending index: Chunk::do_recv joins the prior
\* write task of the Chunk (which posts its completion, flag) and spawns a new one
\* a recv that spawns the new write task without joining the one in flight,
\* whose completion is never posted
RecvChunk_nojoin(router_id, index, flag, maxfail, maxsink) ==
    /\ ~fatal
    /\ Len(pipe) <= MaxPipe
    /\ router_id \in DOMAIN files
    /\ index \in files[router_id].chunks
    /\ InFlight < maxsink
    /\ (<<router_id, index>> \notin writing) => flag = "1"
    /\ writing' = writing \cup {<<router_id, index>>}
    /\ out' = <<>>
    /\ last' = NoStep
    /\ UNCHANGED <<upload_slots, slots, queue, pipe, files, sink_worker, sink_timer,
                   fatal, news, fails, pulls>>

RecvChunk(router_id, index, flag, maxfail, maxsink) ==
    LET joined == <<router_id, index>> \in writing
    IN /\ ~fatal
       /\ Len(pipe) <= MaxPipe
       /\ router_id \in DOMAIN files
       /\ index \in files[router_id].chunks
       /\ InFlight < maxsink
       /\ IF joined
          THEN /\ flag = "0" => fails < maxfail
               /\ sink_worker' = sink_worker (+) SetToBag({SinkMsg(router_id, index, flag)})
               /\ fails' = IF flag = "0" THEN fails + 1 ELSE fails
          ELSE /\ flag = "1"
               /\ UNCHANGED <<sink_worker, fails>>
       /\ writing' = writing \cup {<<router_id, index>>}
       /\ out' = <<>>
       /\ last' = NoStep
       /\ UNCHANGED <<upload_slots, slots, queue, pipe, files, sink_timer, fatal, news, pulls>>

\* any other action frame: recv returns Err(InvalidRequest)
RecvOther(router_id) ==
    /\ ~fatal
    /\ fatal' = TRUE
    /\ out' = <<>>
    /\ last' = Step("other", router_id, None, FALSE, "fatal", "none")
    /\ UNCHANGED <<upload_slots, slots, queue, pipe, files, writing, sink_worker,
                   sink_timer, news, fails, pulls>>

(***************************************************************************)
(* Server::recv on the sink socket, for the frame m.  rest: the worker     *)
(* frames left unread.  save: what File::save returns if it runs ("Ok",    *)
(* "FailChecksum" or "Io").  good: whether a write task joined in this     *)
(* step wrote its payload.                                                 *)
(***************************************************************************)
SinkBranch(m, save, rest, good, maxfail) ==
    LET router_id == m.router_id
        success == (m.flag = "1")
    IN IF router_id \notin DOMAIN files
       THEN \* Err(InvalidRequest)
            /\ save = "Ok" /\ good
            /\ fatal' = TRUE
            /\ out' = <<>>
            /\ last' = Step("sink", router_id, m.index, success, "fatal", "none")
            /\ sink_worker' = rest
            /\ UNCHANGED <<slots, queue, pipe, files, writing, pulls, fails>>
       ELSE LET r == File_sink(files[router_id], Arb, router_id, m.index, success)
                \* removing the chunk from the map drops it, which joins its write task
                dropped == IF success THEN writing \cap {<<router_id, m.index>>} ELSE {}
            IN IF ~r.ok
               THEN \* Err(ChunkIndex)
                    /\ save = "Ok" /\ good
                    /\ fatal' = TRUE
                    /\ out' = <<>>
                    /\ last' = Step("sink", router_id, m.index, success, "fatal", "none")
                    /\ sink_worker' = rest
                    /\ UNCHANGED <<slots, queue, pipe, files, writing, pulls, fails>>
               ELSE /\ files' = [files EXCEPT ![router_id] = r.file]
                    /\ slots' = r.arb.slots
                    /\ queue' = r.arb.queue
                    /\ pipe' = pipe \o r.arb.msgs
                    /\ pulls' = AddPulls(pulls, r.arb.msgs)
                    /\ writing' = writing \ dropped
                    /\ IF dropped = {}
                       THEN good /\ sink_worker' = rest /\ UNCHANGED fails
                       ELSE /\ ~good => fails < maxfail
                            /\ fails' = IF good THEN fails ELSE fails + 1
                            /\ sink_worker' = rest (+) Joined(dropped, IF good THEN dropped ELSE {})
                    /\ UNCHANGED fatal
                    /\ IF is_error(r.file)
                       THEN \* the Err message is built and discarded; what is sent is the
                            \* emptied sink message with the router id in front
                            /\ save = "Ok"
                            /\ out' = <<[to |-> router_id, body |-> <<>>]>>
                            /\ last' = Step("sink", router_id, m.index, success, "ok", "none")
                       ELSE IF is_complete(r.file)
                       THEN /\ out' = IF save = "Ok"
                                      THEN <<OkFrame(router_id)>>
                                      ELSE <<ErrFrame(router_id, save)>>
                            /\ last' = Step("sink", router_id, m.index, success, "ok", save)
                       ELSE /\ save = "Ok"
                            /\ out' = <<>>
                            /\ last' = Step("sink", router_id, m.index, success, "ok", "none")

SaveResults == {"Ok", "FailChecksum", "Io"}

\* a completion posted by a write task
RecvSinkWorker(m, save, good, maxfail) ==
    /\ ~fatal
    /\ BagIn(m, sink_worker)
    /\ SinkBranch(m, save, sink_worker (-) SetToBag({m}), good, maxfail)
    /\ UNCHANGED <<upload_slots, sink_timer, news>>

\* a sink branch that reads and forgets a failure whose router id has no File
RecvSinkTimer_forgiving(save, good, maxfail) ==
    /\ ~fatal
    /\ sink_timer # <<>>
    /\ sink_timer' = Tail(sink_timer)
    /\ IF Head(sink_timer).router_id \in DOMAIN files
       THEN SinkBranch(Head(sink_timer), save, sink_worker, good, maxfail)
       ELSE /\ save = "Ok" /\ good
            /\ out' = <<>>
            /\ last' = Step("sink", Head(sink_timer).router_id, Head(sink_timer).index,
                            FALSE, "ok", "none")
            /\ UNCHANGED <<slots, queue, pipe, files, writing, sink_worker, pulls, fails, fatal>>
    /\ UNCHANGED <<upload_slots, news>>

\* a synthetic failure posted by the Timer
RecvSinkTimer(save, good, maxfail) ==
    /\ ~fatal
    /\ sink_timer # <<>>
    /\ sink_timer' = Tail(sink_timer)
    /\ SinkBranch(Head(sink_timer), save, sink_worker, good, maxfail)
    /\ UNCHANGED <<upload_slots, news>>

(***************************************************************************)
(* Server::recv on the arbitrator back-channel: forward one pull.          *)
(***************************************************************************)
RecvArbitrator ==
    /\ ~fatal
    /\ pipe # <<>>
    /\ out' = <<Head(pipe)>>
    /\ pipe' = Tail(pipe)
    /\ last' = NoStep
    /\ UNCHANGED <<upload_slots, slots, queue, files, writing, sink_worker, sink_timer,
                   fatal, news, fails, pulls>>

(***************************************************************************)
(* A write task finishes: it posts router_id | index | flag to the sink.   *)
(***************************************************************************)
WorkerDone(t, flag, maxfail) ==
    /\ ~fatal
    /\ Len(pipe) <= MaxPipe
    /\ t \in writing
    /\ flag = "0" => fails < maxfail
    /\ fails' = IF flag = "0" THEN fails + 1 ELSE fails
    /\ writing' = writing \ {t}
    /\ sink_worker' = sink_worker (+) SetToBag({SinkMsg(t[1], t[2], flag)})
    /\ out' = <<>>
    /\ last' = NoStep
    /\ UNCHANGED <<upload_slots, slots, queue, pipe, files, sink_timer, fatal, news, pulls>>

(***************************************************************************)
(* Timer::run, one wakeup: a failure frame for every expired entry.        *)
(***************************************************************************)
\* a walk that reports every started entry, expired or not
RECURSIVE TimerWalk_started(_, _)
TimerWalk_started(q, i) ==
    IF i > Len(q) THEN <<>>
    ELSE IF is_started(q[i])
         THEN <<SinkMsg(q[i].router_id, q[i].index, "0")>> \o TimerWalk_started(q, i + 1)
         ELSE TimerWalk_started(q, i + 1)

RECURSIVE TimerWalk(_, _)
TimerWalk(q, i) ==
    IF i > Len(q) THEN <<>>
    ELSE IF is_expired(q[i])
         THEN <<SinkMsg(q[i].router_id, q[i].index, "0")>> \o TimerWalk(q, i + 1)
         ELSE TimerWalk(q, i + 1)

Timer_run(maxfail, maxsink) ==
    /\ ~fatal
    /\ Len(pipe) <= MaxPipe
    /\ TimerWalk(queue, 1) # <<>>
    /\ Len(sink_timer) + Len(TimerWalk(queue, 1)) <= maxsink
    /\ fails + Len(TimerWalk(queue, 1)) <= maxfail
    /\ fails' = fails + Len(TimerWalk(queue, 1))
    /\ sink_timer' = sink_timer \o TimerWalk(queue, 1)
    /\ out' = <<>>
    /\ last' = NoStep
    /\ UNCHANGED <<upload_slots, slots, queue, pipe, files, writing, sink_worker,
                   fatal, news, pulls>>

(***************************************************************************)
(* One second passes: Instant::elapsed() of every started entry grows.     *)
(***************************************************************************)
Elapse(c) ==
    IF is_started(c) /\ c.timestamp < CHUNK_TIMEOUT
    THEN [c EXCEPT !.timestamp = @ + 1]
    ELSE c

Tick ==
    /\ ~fatal
    /\ Len(pipe) <= MaxPipe
    /\ \E k \in 1 .. Len(queue) : Elapse(queue[k]) # queue[k]
    /\ queue' = [k \in 1 .. Len(queue) |-> Elapse(queue[k])]
    /\ out' = <<>>
    /\ last' = NoStep
    /\ UNCHANGED <<upload_slots, slots, pipe, files, writing, sink_worker, sink_timer,
                   fatal, news, fails, pulls>>

Flags == {"0", "1"}

\* the steps of the server, its tasks and its peers `ps`
NextFor(ps, sizes, chunk_sizes, maxnew, maxfail) ==
    \/ /\ \E p \in ps, size \in sizes, cs \in chunk_sizes, o \in BOOLEAN, b \in BOOLEAN,
             good \in SUBSET writing :
             RecvNew(p, size, cs, o, b, good, maxnew, maxfail)
       /\ UNCHANGED <<xvars, lvars>>
    \/ /\ \E p \in ps, i \in Indices, f \in Flags : RecvChunk(p, i, f, maxfail, MaxSink)
       /\ UNCHANGED <<xvars, lvars>>
    \/ /\ \E m \in BagToSet(sink_worker), sv \in SaveResults, g \in BOOLEAN :
             RecvSinkWorker(m, sv, g, maxfail)
       /\ UNCHANGED <<xvars, lvars>>
    \/ /\ \E sv \in SaveResults, g \in BOOLEAN : RecvSinkTimer(sv, g, maxfail)
       /\ UNCHANGED <<xvars, lvars>>
    \/ RecvArbitrator /\ UNCHANGED <<xvars, lvars>>
    \/ /\ \E t \in writing, f \in Flags : WorkerDone(t, f, maxfail)
       /\ UNCHANGED <<xvars, lvars>>
    \/ Timer_run(maxfail, MaxSink) /\ UNCHANGED <<xvars, lvars>>
    \/ Tick /\ UNCHANGED <<xvars, lvars>>

Next == NextFor(Peers, Sizes, ChunkSizes, MaxNew, MaxFail)

Spec == Init /\ [][Next]_vars

\* one peer, one File, every retry of its chunks
NextRetry == NextFor({"abc"}, 1 .. MaxSize, {1}, 1, MaxRetryFail)

InitRetry == InitWith({1, MaxRetrySlots})

SpecRetry == InitRetry /\ [][NextRetry]_vars

\* the steps of the reactor on its own sockets, of the write tasks, of the
\* timer and of the clock: what keeps running whether or not a peer sends
ServerSteps(maxfail) ==
    \/ /\ \E m \in BagToSet(sink_worker), sv \in SaveResults, g \in BOOLEAN :
             RecvSinkWorker(m, sv, g, maxfail)
       /\ UNCHANGED <<xvars, lvars>>
    \/ /\ \E sv \in SaveResults, g \in BOOLEAN : RecvSinkTimer(sv, g, maxfail)
       /\ UNCHANGED <<xvars, lvars>>
    \/ RecvArbitrator /\ UNCHANGED <<xvars, lvars>>
    \/ /\ \E t \in writing, f \in Flags : WorkerDone(t, f, maxfail)
       /\ UNCHANGED <<xvars, lvars>>
    \/ Timer_run(maxfail, MaxSink) /\ UNCHANGED <<xvars, lvars>>
    \/ Tick /\ UNCHANGED <<xvars, lvars>>

\* the reactor loop, the tasks and the timer thread are scheduled as long as
\* they have something to do; a peer is free never to send
FairRetry == SpecRetry /\ WF_vars(ServerSteps(MaxRetryFail))

\* one peer with a File of two chunks and two slots; the timer may post up
\* to MaxTimerSink failures that wait to be read
MaxTimerFail == 3
MaxTimerSink == 2

InitTimer == InitWith({2})

NextTimer ==
    \/ NextFor({"abc"}, {2}, {1}, 1, MaxTimerFail)
    \/ Timer_run(MaxTimerFail, MaxTimerSink) /\ UNCHANGED <<xvars, lvars>>

SpecTimer == InitTimer /\ [][NextTimer]_vars

\* one peer that posts NEW and never answers a pull: the only completions
\* are the failures the timer posts
NextUnanswered ==
    \/ /\ \E size \in 1 .. MaxSize, o \in BOOLEAN :
             RecvNew("abc", size, 1, o, FALSE, {}, 1, MaxRetryFail)
       /\ UNCHANGED <<xvars, lvars>>
    \/ /\ \E sv \in SaveResults, g \in BOOLEAN : RecvSinkTimer(sv, g, MaxRetryFail)
       /\ UNCHANGED <<xvars, lvars>>
    \/ RecvArbitrator /\ UNCHANGED <<xvars, lvars>>
    \/ Timer_run(MaxRetryFail, MaxTimerSink) /\ UNCHANGED <<xvars, lvars>>
    \/ Tick /\ UNCHANGED <<xvars, lvars>>

SpecUnanswered == InitRetry /\ [][NextUnanswered]_vars

(***************************************************************************)
(* The queue lock and the sink, step by step: Timer::run holds the read    *)
(* guard of Arbitrator.queue for its whole walk and sends to the sink      *)
(* inside it; queue(), release() and request() take the write guard.       *)
(***************************************************************************)
\* frames the sink holds unread before a send to it blocks
SinkCap == 1

MaxLockFail == 4

\* frames in the sink: those posted, less the one the reactor has read
SinkLoad == Len(sink_timer) - (IF reactor = "sink" THEN 1 ELSE 0)

\* the sink branch for frame m reaches queue() or release()
TakesWriteLock(m) ==
    /\ m.router_id \in DOMAIN files
    /\ m.index \in files[m.router_id].chunks
    /\ (m.flag = "1" \/ files[m.router_id].chunk_error_cnt < MAX_CHUNK_ERR)

\* Timer::run wakes up and takes the read guard; a reactor that waits for
\* the write guard gets it first (the timer waits a second between walks)
TimerLock ==
    /\ ~fatal
    /\ timer_at = 0
    /\ reactor = "idle"
    /\ timer_at' = 1
    /\ out' = <<>>
    /\ last' = NoStep
    /\ UNCHANGED <<upload_slots, slots, queue, pipe, files, writing, sink_worker, sink_timer,
                   fatal, news, fails, pulls, reactor>>

\* one iteration of the walk: the send of a failure frame returns only when
\* the sink has room
TimerStep(maxfail) ==
    /\ ~fatal
    /\ timer_at \in 1 .. Len(queue)
    /\ IF is_expired(queue[timer_at])
       THEN /\ SinkLoad < SinkCap
            /\ fails < maxfail
            /\ fails' = fails + 1
            /\ sink_timer' = Append(sink_timer,
                                    SinkMsg(queue[timer_at].router_id, queue[timer_at].index, "0"))
       ELSE UNCHANGED <<fails, sink_timer>>
    /\ timer_at' = timer_at + 1
    /\ out' = <<>>
    /\ last' = NoStep
    /\ UNCHANGED <<upload_slots, slots, queue, pipe, files, writing, sink_worker,
                   fatal, news, pulls, reactor>>

\* the walk is over: the read guard is dropped
TimerUnlock ==
    /\ ~fatal
    /\ timer_at = Len(queue) + 1
    /\ timer_at' = 0
    /\ out' = <<>>
    /\ last' = NoStep
    /\ UNCHANGED <<upload_slots, slots, queue, pipe, files, writing, sink_worker, sink_timer,
                   fatal, news, fails, pulls, reactor>>

\* Server::recv reads a frame off the sink while the timer walks, and
\* File::sink stops at the write guard
ReactorTake ==
    /\ ~fatal
    /\ reactor = "idle"
    /\ timer_at >= 1
    /\ sink_timer # <<>>
    /\ TakesWriteLock(Head(sink_timer))
    /\ reactor' = "sink"
    /\ out' = <<>>
    /\ last' = NoStep
    /\ UNCHANGED <<upload_slots, slots, queue, pipe, files, writing, sink_worker, sink_timer,
                   fatal, news, fails, pulls, timer_at>>

\* the write guard is granted and the sink branch runs to its end
ReactorResume(save, good, maxfail) ==
    /\ reactor = "sink"
    /\ timer_at = 0
    /\ RecvSinkTimer(save, good, maxfail)
    /\ reactor' = "idle"
    /\ UNCHANGED timer_at

\* the sink branch in one step: the guard is free, or is not asked for
LockSink(save, good, maxfail) ==
    /\ reactor = "idle"
    /\ sink_timer # <<>>
    /\ timer_at = 0 \/ ~TakesWriteLock(Head(sink_timer))
    /\ RecvSinkTimer(save, good, maxfail)
    /\ UNCHANGED lvars

\* one peer that posts NEW and never answers a pull, a budget of two slots
NextLock ==
    \/ \* a NEW of a File with chunks, whose File::create queues them
       /\ reactor = "idle"
       /\ timer_at = 0
       /\ \E size \in 1 .. MaxSize, o \in BOOLEAN :
             RecvNew("abc", size, 1, o, FALSE, {}, 1, MaxLockFail)
       /\ UNCHANGED <<xvars, lvars>>
    \/ \E sv \in SaveResults, g \in BOOLEAN : LockSink(sv, g, MaxLockFail) /\ UNCHANGED xvars
    \/ ReactorTake /\ UNCHANGED xvars
    \/ \E sv \in SaveResults, g \in BOOLEAN : ReactorResume(sv, g, MaxLockFail) /\ UNCHANGED xvars
    \/ reactor = "idle" /\ RecvArbitrator /\ UNCHANGED <<xvars, lvars>>
    \/ TimerLock /\ UNCHANGED xvars
    \/ TimerStep(MaxLockFail) /\ UNCHANGED xvars
    \/ TimerUnlock /\ UNCHANGED xvars
    \/ Tick /\ UNCHANGED <<xvars, lvars>>

SpecLock == InitTimer /\ [][NextLock]_vars

\* whether the loop of create_file ends: the loop run on size_ctr alone.  The
\* counter takes at most 2^Width values, so a loop that has not ended after
\* 2^Width iterations is back at a value it had and never ends.
RECURSIVE LoopEnds(_, _, _)
LoopEnds(size_ctr, step, fuel) ==
    IF ~(size_ctr > 0) THEN TRUE
    ELSE IF fuel = 0 THEN FALSE
    ELSE IF size_ctr - step > MaxI THEN TRUE   \* wraps below zero, or panics
    ELSE LoopEnds(size_ctr - step, step, fuel - 1)

CreateEnds(size, chunk_size) == LoopEnds(AsSigned(size), AsSigned(chunk_size), 2 ^ Width)

\* iterations of a loop that does not end which the model follows
MaxSpin == 4

\* Server::recv for a NEW whose create_file loop does not end: the reactor
\* thread is in the loop from now on and handles no other event (fatal); the
\* step is the first iteration, last.index the index it queued
RecvNewSpin(router_id, size, chunk_size, maxnew) ==
    /\ ~fatal
    /\ Len(pipe) <= MaxPipe
    /\ news < maxnew
    /\ size <= MaxI
    /\ ~CreateEnds(size, chunk_size)
    /\ news' = news + 1
    /\ fatal' = TRUE
    /\ LET r == Arbitrator_queue(Arb, router_id, 0)
       IN /\ slots' = r.slots
          /\ queue' = r.queue
          /\ pipe' = pipe \o r.msgs
          /\ pulls' = AddPulls(pulls, r.msgs)
    /\ out' = <<>>
    /\ last' = Step("NEW", router_id, 0, FALSE, "looping", "none")
    /\ UNCHANGED <<upload_slots, files, writing, sink_worker, sink_timer, fails>>

\* one more iteration of that loop: the next index is queued
CreateSpin ==
    /\ last.ret = "looping"
    /\ last.index < MaxSpin
    /\ LET r == Arbitrator_queue(Arb, last.peer, last.index + 1)
       IN /\ slots' = r.slots
          /\ queue' = r.queue
          /\ pipe' = pipe \o r.msgs
          /\ pulls' = pulls
    /\ out' = <<>>
    /\ last' = [last EXCEPT !.index = @ + 1]
    /\ UNCHANGED <<upload_slots, files, writing, sink_worker, sink_timer, fatal, news, fails>>

\* one peer that may announce any chunk size, zero included
NextCreate ==
    \/ NextFor({"abc"}, 1 .. MaxSize, {1}, 1, MaxFail)
    \/ /\ \E size \in Sizes, cs \in ChunkSizes \cup {0} : RecvNewSpin("abc", size, cs, 1)
       /\ UNCHANGED <<xvars, lvars>>
    \/ CreateSpin /\ UNCHANGED <<xvars, lvars>>

SpecCreate == Init /\ [][NextCreate]_vars

\* a budget of one slot, two peers, Files of three chunks
InitAdmission == InitWith({1})

NextAdmission == NextFor(Peers, {3}, {1}, 2, MaxFail)

SpecAdmission == InitAdmission /\ [][NextAdmission]_vars

\* the server with the frames it rejects: malformed NEW, NEW whose File
\* cannot be created, CHUNK without a File or for an index not pending, and
\* actions it does not know
NextErrors ==
    \/ NextFor(Peers, {1}, {1}, MaxNew, MaxFail)
    \/ (\E p \in Peers : RecvNewInvalid(p)) /\ UNCHANGED <<xvars, lvars>>
    \/ (\E p \in Peers : RecvNewIo(p)) /\ UNCHANGED <<xvars, lvars>>
    \/ (\E p \in Peers : RecvChunkInvalid(p)) /\ UNCHANGED <<xvars, lvars>>
    \/ (\E p \in Peers, i \in Indices : RecvChunkIndex(p, i)) /\ UNCHANGED <<xvars, lvars>>
    \/ (\E p \in Peers : RecvOther(p)) /\ UNCHANGED <<xvars, lvars>>

SpecErrors == Init /\ [][NextErrors]_vars

(***************************************************************************)
(* The sending client (File::open, File::send) and the contents that move  *)
(* between it and the receiver's disk.                                     *)
(***************************************************************************)
ClientId == "abc"

\* s.parse::<u64>() of a decimal string, for values up to max; None if it does not parse
ParseU64(str, max) ==
    IF \E n \in 0 .. max : ToString(n) = str
    THEN CHOOSE n \in 0 .. max : ToString(n) = str
    ELSE None

MaxU == 2 ^ Width - 1
MaxCrc == 2 ^ CrcWidth - 1

\* all byte strings of length at most n
BytesUpTo(n) == UNION {[1 .. k -> Bytes] : k \in 0 .. n}

\* the loop of open_file: the number of chunks of the local file
RECURSIVE OpenLoop(_, _, _)
OpenLoop(size_ctr, index, step) ==
    IF ~(size_ctr > 0) THEN index ELSE OpenLoop(size_ctr - step, index + 1, step)

\* File::open_file: size, crc and chunks of the local file
OpenFile(bytes, chunk_size, backup_existing) ==
    [state |-> "open", bytes |-> bytes, chunk_size |-> chunk_size,
     backup_existing |-> backup_existing, crc |-> calc_crc(bytes),
     chunks |-> 0 .. (OpenLoop(Len(bytes), 0, chunk_size) - 1),
     error |-> ""]

\* the options blob: FileOptions::encode on the client, FileOptions::decode on the server
EncodeOptions(backup_existing, chunk_size) ==
    [backup_existing |-> backup_existing, chunk_size |-> chunk_size]

NewFrame(c) ==
    [action |-> "NEW", path |-> CommittedPath, size |-> ToString(Len(c.bytes)),
     crc |-> ToString(c.crc), chunk_size |-> ToString(c.chunk_size),
     options |-> EncodeOptions(c.backup_existing, c.chunk_size)]

ChunkFrame(index, data) == [action |-> "CHUNK", index |-> ToString(index), data |-> data]

\* what the router socket delivers to the client of the frames handed to it:
\* a message that holds the routing id and nothing else delivers nothing
Deliver(frames) ==
    SelectSeq(frames, LAMBDA f : f.to = ClientId /\ f.body # <<>>)

\* File::send, up to the NEW frame
ClientSendNew ==
    /\ client.state = "open"
    /\ wire' = Append(wire, NewFrame(client))
    /\ client' = [client EXCEPT !.state = "loop"]
    /\ UNCHANGED <<svars, lvars, disk, meta, payload, inbox>>

\* a reply loop that answers a pull with the chunk twice
ClientRecv_twice ==
    /\ client.state = "loop"
    /\ inbox # <<>>
    /\ inbox' = Tail(inbox)
    /\ LET body == Head(inbox).body
       IN CASE body[1] = "Ok" ->
                 /\ client' = [client EXCEPT !.state = "Ok"]
                 /\ UNCHANGED wire
            [] body[1] = "Err" ->
                 /\ client' = [client EXCEPT !.state = "UploadError", !.error = body[2]]
                 /\ UNCHANGED wire
            [] body[1] = "CHUNK" ->
                 LET index == ParseU64(body[2], MaxU)
                     frame == ChunkFrame(index, ChunkBytes(client.bytes, client.chunk_size, index))
                 IN IF index \in client.chunks
                    THEN /\ wire' = wire \o <<frame, frame>>
                         /\ UNCHANGED client
                    ELSE /\ client' = [client EXCEPT !.state = "ChunkIndex"]
                         /\ UNCHANGED wire
    /\ UNCHANGED <<svars, lvars, disk, meta, payload>>

\* File::send, one turn of the reply loop
ClientRecv ==
    /\ client.state = "loop"
    /\ inbox # <<>>
    /\ inbox' = Tail(inbox)
    /\ LET body == Head(inbox).body
       IN CASE body[1] = "Ok" ->
                 /\ client' = [client EXCEPT !.state = "Ok"]
                 /\ UNCHANGED wire
            [] body[1] = "Err" ->
                 /\ client' = [client EXCEPT !.state = "UploadError", !.error = body[2]]
                 /\ UNCHANGED wire
            [] body[1] = "CHUNK" ->
                 LET index == ParseU64(body[2], MaxU)
                 IN IF index \in client.chunks
                    THEN /\ wire' = Append(wire, ChunkFrame(index,
                                       ChunkBytes(client.bytes, client.chunk_size, index)))
                         /\ UNCHANGED client
                    ELSE /\ client' = [client EXCEPT !.state = "ChunkIndex"]
                         /\ UNCHANGED wire
    /\ UNCHANGED <<svars, lvars, disk, meta, payload>>

\* the disk after the write tasks in `tasks` ran to the end
RECURSIVE ApplyWrites(_, _, _)
ApplyWrites(d, pl, tasks) ==
    IF tasks = {} THEN d
    ELSE LET t == CHOOSE x \in tasks : TRUE
             w == pl[t]
         IN ApplyWrites([d EXCEPT ![w.path] = WriteTask(d[w.path], w.chunk_size, t[2], w.data)],
                        pl, tasks \ {t})

\* the write tasks in `tasks` can all open their staging file
CanWrite(d, pl, tasks) == \A t \in tasks : d[pl[t].path].exists

Restrict(f, S) == [x \in S |-> f[x]]

\* Server::recv on the router socket, for the NEW frame the client sent
XferNew(maxnew, maxfail) ==
    /\ wire # <<>>
    /\ Head(wire).action = "NEW"
    /\ LET f == Head(wire)
           size == ParseU64(f.size, MaxU)
           crc == ParseU64(f.crc, MaxCrc)
           chunk_size == ParseU64(f.chunk_size, MaxU)
           upload_path == temporary_filename(disk)
       IN /\ size # None /\ crc # None /\ chunk_size # None
          /\ RecvNew(ClientId, size, chunk_size, TRUE, FALSE, {}, maxnew, maxfail)
          /\ disk' = [disk EXCEPT ![upload_path] = SetLen(size)]
          /\ meta' = [p \in DOMAIN meta \cup {ClientId} |->
                         IF p = ClientId
                         THEN [crc |-> crc, upload_path |-> upload_path,
                               backup_existing |-> f.options.backup_existing]
                         ELSE meta[p]]
    /\ wire' = Tail(wire)
    /\ inbox' = inbox \o Deliver(out')
    /\ UNCHANGED <<payload, client, lvars>>

\* Server::recv on the router socket, for a CHUNK frame whose index is pending
XferChunk(flag, maxfail, maxsink) ==
    /\ wire # <<>>
    /\ Head(wire).action = "CHUNK"
    /\ LET f == Head(wire)
           index == ParseU64(f.index, MaxU)
           t == <<ClientId, index>>
       IN /\ index # None
          /\ RecvChunk(ClientId, index, flag, maxfail, maxsink)
          /\ IF t \in writing /\ flag = "1"
             THEN /\ CanWrite(disk, payload, {t})
                  /\ disk' = ApplyWrites(disk, payload, {t})
             ELSE UNCHANGED disk
          /\ payload' = [x \in DOMAIN payload \cup {t} |->
                            IF x = t
                            THEN [path |-> meta[ClientId].upload_path,
                                  chunk_size |-> files[ClientId].chunk_size,
                                  data |-> f.data]
                            ELSE payload[x]]
    /\ wire' = Tail(wire)
    /\ inbox' = inbox \o Deliver(out')
    /\ UNCHANGED <<meta, client, lvars>>

\* Server::recv on the router socket, for a CHUNK frame whose index is not pending
XferChunkIndex ==
    /\ wire # <<>>
    /\ Head(wire).action = "CHUNK"
    /\ ParseU64(Head(wire).index, MaxU) # None
    /\ RecvChunkIndex(ClientId, ParseU64(Head(wire).index, MaxU))
    /\ wire' = Tail(wire)
    /\ inbox' = inbox \o Deliver(out')
    /\ UNCHANGED <<disk, meta, payload, client, lvars>>

\* a write task runs to the end and posts its completion
XferWorkerDone(t, flag, maxfail) ==
    /\ WorkerDone(t, flag, maxfail)
    /\ IF flag = "1"
       THEN /\ CanWrite(disk, payload, {t})
            /\ disk' = ApplyWrites(disk, payload, {t})
       ELSE UNCHANGED disk
    /\ payload' = Restrict(payload, writing')
    /\ UNCHANGED <<meta, wire, inbox, client, lvars>>

\* what the sink branch does to the disk: the write task it joined when it
\* dropped the Chunk, then File::save if the File is complete and not failed
XferSinkDisk(m, save, good) ==
    LET joined == writing \ writing'
        d == IF joined # {} /\ good THEN ApplyWrites(disk, payload, joined) ELSE disk
        md == meta[m.router_id]
        r == File_save(d, md.crc, md.upload_path, md.backup_existing)
    IN /\ (joined # {} /\ good) => CanWrite(disk, payload, joined)
       /\ IF last'.save # "none"
          THEN save = r.result /\ disk' = r.disk
          ELSE disk' = d
       /\ payload' = Restrict(payload, writing')
       /\ inbox' = inbox \o Deliver(out')
       /\ UNCHANGED <<meta, wire, client, lvars>>

XferSinkWorker(m, save, good, maxfail) ==
    /\ RecvSinkWorker(m, save, good, maxfail)
    /\ XferSinkDisk(m, save, good)

XferSinkTimer(save, good, maxfail) ==
    /\ RecvSinkTimer(save, good, maxfail)
    /\ XferSinkDisk(Head(sink_timer), save, good)

XferArbitrator ==
    /\ RecvArbitrator
    /\ inbox' = inbox \o Deliver(out')
    /\ UNCHANGED <<disk, meta, payload, wire, client, lvars>>

\* one client that uploads a file of up to MaxLen bytes to a server with
\* one or two slots; the committed path may exist already
InitTransfer ==
    /\ InitServer({1, 2})
    /\ disk \in {[p \in Paths |-> IF p = CommittedPath THEN c ELSE Absent] :
                    c \in {Absent, Present(<<1>>)}}
    /\ meta = <<>>
    /\ payload = <<>>
    /\ wire = <<>>
    /\ inbox = <<>>
    /\ client \in {OpenFile(b, cs, bk) :
                      b \in BytesUpTo(MaxLen), cs \in 1 .. 2, bk \in {"None", BackupSuffix}}

NextTransferFor(maxfail, flags) ==
    \/ ClientSendNew
    \/ ClientRecv
    \/ XferNew(1, maxfail)
    \/ \E f \in flags : XferChunk(f, maxfail, MaxXferSink)
    \/ XferChunkIndex
    \/ \E t \in writing, f \in flags : XferWorkerDone(t, f, maxfail)
    \/ \E m \in BagToSet(sink_worker), sv \in SaveResults, g \in (IF "0" \in flags THEN BOOLEAN ELSE {TRUE}) :
          XferSinkWorker(m, sv, g, maxfail)
    \/ \E sv \in SaveResults, g \in (IF "0" \in flags THEN BOOLEAN ELSE {TRUE}) : XferSinkTimer(sv, g, maxfail)
    \/ XferArbitrator
    \/ Timer_run(maxfail, MaxSink) /\ UNCHANGED <<xvars, lvars>>
    \/ Tick /\ UNCHANGED <<xvars, lvars>>

NextTransfer == NextTransferFor(MaxXferFail, Flags)

SpecTransfer == InitTransfer /\ [][NextTransfer]_vars

\* the reactor, the write tasks, the timer and the client keep running: a
\* step that stays possible is eventually taken
FairTransfer == SpecTransfer /\ WF_vars(NextTransfer)

\* File::send against a scripted peer at the other end of the socket (as in
\* test_open_send): the peer reads what the client wrote and sends it any
\* reply frame, at most MaxReplies frames being in the two directions at once
MaxReplies == 2

PeerFrames ==
    {[to |-> ClientId, body |-> <<"Ok">>]}
    \cup {[to |-> ClientId, body |-> <<"Err", Description(e)>>] : e \in {"InvalidRequest", "FileFail"}}
    \cup {[to |-> ClientId, body |-> <<"CHUNK", ToString(i)>>] : i \in 0 .. MaxLen}

PeerReply(f) ==
    /\ client.state = "loop"
    /\ Len(inbox) + Len(wire) < MaxReplies
    /\ inbox' = Append(inbox, f)
    /\ UNCHANGED <<svars, lvars, disk, meta, payload, wire, client>>

PeerRead ==
    /\ wire # <<>>
    /\ wire' = Tail(wire)
    /\ UNCHANGED <<svars, lvars, disk, meta, payload, inbox, client>>

InitSend ==
    /\ InitServer({0})
    /\ disk = [p \in Paths |-> Absent]
    /\ meta = <<>>
    /\ payload = <<>>
    /\ wire = <<>>
    /\ inbox = <<>>
    /\ client \in {OpenFile(b, cs, bk) :
                      b \in BytesUpTo(MaxLen), cs \in 1 .. 2, bk \in {"None", BackupSuffix}}

NextSend ==
    \/ ClientSendNew
    \/ ClientRecv
    \/ \E f \in PeerFrames : PeerReply(f)
    \/ PeerRead

SpecSend == InitSend /\ [][NextSend]_vars

\* a client with a one-byte file whose pulls may time out until the error
\* counter of its File is saturated, and whose answer may come after that
MaxFailing == 5

InitFailing ==
    /\ InitServer({1})
    /\ disk \in {[p \in Paths |-> IF p = CommittedPath THEN c ELSE Absent] :
                    c \in {Absent, Present(<<1>>)}}
    /\ meta = <<>>
    /\ payload = <<>>
    /\ wire = <<>>
    /\ inbox = <<>>
    /\ client \in {OpenFile(b, 1, bk) : b \in {<<0>>, <<1>>}, bk \in {"None", BackupSuffix}}

SpecFailing == InitFailing /\ [][NextTransferFor(MaxFailing, Flags)]_vars

\* an upload without a backup in which every write succeeds; a pull may still
\* time out before its answer is processed.  The reactor, the write tasks,
\* the timer and the client take every step that stays possible.
InitHonest ==
    /\ InitTransfer
    /\ client.backup_existing = "None"
    /\ client.bytes # <<>>

NextHonest == NextTransferFor(MaxXferFail, {"1"})

SpecHonest == InitHonest /\ [][NextHonest]_vars /\ WF_vars(NextHonest)

\* a client that announces in NEW either the crc of its file or another one
InitMismatch ==
    /\ InitServer({2})
    /\ disk \in {[p \in Paths |-> IF p = CommittedPath THEN c ELSE Absent] :
                    c \in {Absent, Present(<<1>>)}}
    /\ meta = <<>>
    /\ payload = <<>>
    /\ wire = <<>>
    /\ inbox = <<>>
    /\ client \in {[OpenFile(b, 1, bk) EXCEPT !.crc = (@ + delta) % (MaxCrc + 1)] :
                      b \in BytesUpTo(MaxLen - 1), bk \in {"None", BackupSuffix},
                      delta \in {0, 1}}

SpecMismatch == InitMismatch /\ [][NextTransfer]_vars

(***************************************************************************)
(* Properties.                                                             *)
(***************************************************************************)
Started == {k \in 1 .. Len(queue) : is_started(queue[k])}
Unstarted == {k \in 1 .. Len(queue) : ~is_started(queue[k])}

\* C1: in every reachable state 0 <= slots <= upload_slots, and slots is
\* upload_slots minus the number of started TimedChunks in the queue.
C1_SlotAccounting ==
    /\ 0 <= slots
    /\ slots <= upload_slots
    /\ slots = upload_slots - Cardinality(Started)

\* the pulls the arbitrator wrote to its socket in the step (a forwarding
\* step only takes the oldest pull off the back-channel)
Emitted ==
    IF Len(pipe') >= Len(pipe) THEN SubSeq(pipe', Len(pipe) + 1, Len(pipe')) ELSE <<>>

\* the position release() removed in the step, 0 if the step released nothing
Released ==
    IF last'.op = "sink" /\ last'.ret = "ok" /\ last'.success
    THEN FindEntry(queue, last'.peer, last'.index)
    ELSE 0

\* the queue of the step's start without the released entry: its entries keep
\* their positions through the rest of the step
Kept == IF Released = 0 THEN queue ELSE RemoveAt(queue, Released)

\* positions (after the step) of the entries the step started
Admitted ==
    {k \in 1 .. Len(queue') :
        is_started(queue'[k]) /\ (k > Len(Kept) \/ ~is_started(Kept[k]))}

\* the pulls for the entries of q at the positions S, in queue order
PullsOf(q, S) ==
    LET at == SelectSeq([k \in 1 .. Len(q) |-> k], LAMBDA k : k \in S)
    IN [n \in 1 .. Len(at) |-> PullMsg(q[at[n]])]

\* C2: request() admits in FIFO insertion order across peers.  In every step:
\* the step emits exactly one pull per entry it starts, in queue order, and
\* none for an entry that was started before; an entry is started only if no
\* unstarted entry is left in front of it; each admission takes one slot, so
\* no more entries are started than slots were free; and unstarted entries
\* stay behind only when slots = 0.
C2_FifoAdmission ==
    [][/\ Len(queue') >= Len(Kept)
       /\ \A k \in 1 .. Len(Kept) :
             /\ queue'[k].router_id = Kept[k].router_id
             /\ queue'[k].index = Kept[k].index
             /\ is_started(Kept[k]) => is_started(queue'[k])
       /\ Emitted = PullsOf(queue', Admitted)
       /\ \A k \in Admitted : \A j \in 1 .. (k - 1) : is_started(queue'[j])
       /\ slots' = slots + (IF Released = 0 THEN 0 ELSE 1) - Cardinality(Admitted)
       /\ slots' >= 0
       /\ (\E k \in 1 .. Len(queue') : ~is_started(queue'[k])) => slots' = 0
      ]_vars

\* C2 witness: with no slot left, entries of both peers are started, the pull
\* for the one admitted last waits on the back-channel, and an unstarted entry
\* stays queued behind them.
C2_Witness ==
    /\ slots = 0
    /\ \E k \in Started : queue[k].router_id = "abc"
    /\ \E k \in Started : queue[k].router_id = "def"
    /\ \E k \in Unstarted : \A j \in Started : j < k
    /\ pipe # <<>>

\* C3: with a budget of one slot and two peers that each posted NEW with three
\* chunks, at most one TimedChunk is started in every reachable state.
C3_OneStarted ==
    (/\ upload_slots = 1
     /\ \A p \in Peers : p \in DOMAIN files /\ files[p].nchunks = 3)
    => Cardinality(Started) <= 1

\* ceil(n / c) for c >= 1
Ceil(n, c) == (n + c - 1) \div c

\* the indices of a File with a successful completion applied
Completed(file) == {i \in DOMAIN file.completed : file.completed[i] >= 1}

\* C4: a File created with size n and chunk_size c >= 1 has exactly ceil(n/c)
\* chunks, and at all times pending + completed = ceil(n/c), every index below
\* ceil(n/c) being either pending or successfully written exactly once.
C4_ChunkCount ==
    \A p \in DOMAIN files :
        LET file == files[p]
            n == Ceil(file.size, file.chunk_size)
        IN /\ file.nchunks = n
           /\ Cardinality(file.chunks) + Cardinality(Completed(file)) = n
           /\ \A i \in 0 .. (n - 1) :
                 \/ i \in file.chunks /\ file.completed[i] = 0
                 \/ i \notin file.chunks /\ file.completed[i] = 1

\* C5: a File reports is_complete() exactly when every index below
\* ceil(size/chunk_size) has had exactly one successful completion, and no
\* index ever has two successful completions applied.
C5_CompleteIffAllWritten ==
    \A p \in DOMAIN files :
        LET file == files[p]
            n == Ceil(file.size, file.chunk_size)
        IN /\ is_complete(file) <=>
                 (\A i \in 0 .. (n - 1) :
                     i \in DOMAIN file.completed /\ file.completed[i] = 1)
           /\ \A i \in DOMAIN file.completed : file.completed[i] <= 1

\* the pulls the step appended to the back-channel
NewPulls == SubSeq(pipe', Len(pipe) + 1, Len(pipe'))

\* the step processed a failed completion for a pending chunk of a File
\* whose error counter was below MAX_CHUNK_ERR
RetriedFailure ==
    /\ last'.op = "sink"
    /\ last'.ret = "ok"
    /\ ~last'.success
    /\ last'.peer \in DOMAIN files
    /\ last'.index \in files[last'.peer].chunks
    /\ files[last'.peer].chunk_error_cnt < MAX_CHUNK_ERR

\* C6: processing a failed completion for a pending chunk while the error
\* counter is below MAX_CHUNK_ERR adds one to the counter, re-queues the chunk
\* and emits a fresh pull for that peer and index.
C6_RetryPull ==
    [][RetriedFailure =>
          /\ files'[last'.peer].chunk_error_cnt = files[last'.peer].chunk_error_cnt + 1
          /\ Len(queue') = Len(queue) + 1
          /\ queue'[Len(queue')].router_id = last'.peer
          /\ queue'[Len(queue')].index = last'.index
          /\ CountPulls(NewPulls, last'.peer, last'.index) = 1
      ]_vars

\* C7: a sink event that leaves the File failed makes the reactor send
\* router_id | "Err" | "Failed to upload file".
C7_FailReply ==
    [][(/\ last'.op = "sink"
        /\ last'.ret = "ok"
        /\ files'[last'.peer].chunk_error_cnt >= MAX_CHUNK_ERR)
       => out' = <<ErrFrame(last'.peer, "FileFail")>>
      ]_vars

C9_FileDestroyed ==
    (last.op = "sink" /\ last.save # "none") => last.peer \notin DOMAIN files

\* C10: a sink event that leaves the File complete and not failed runs save()
\* and sends exactly one terminal frame, Ok if save succeeded and Err with the
\* save error otherwise; with chunks pending and the File not failed, nothing
\* is sent.
C10_TerminalReply ==
    [][(/\ last'.op = "sink"
        /\ last'.ret = "ok"
        /\ files'[last'.peer].chunk_error_cnt < MAX_CHUNK_ERR)
       => IF files'[last'.peer].chunks = {}
          THEN /\ last'.save \in SaveResults
               /\ out' = <<IF last'.save = "Ok"
                           THEN OkFrame(last'.peer)
                           ELSE ErrFrame(last'.peer, last'.save)>>
          ELSE /\ last'.save = "none"
               /\ out' = <<>>
      ]_vars

\* the last chunk of a two-chunk File was written and save() failed the checksum
C10_Witness ==
    /\ last.op = "sink" /\ last.success
    /\ last.save = "FailChecksum"
    /\ files[last.peer].nchunks = 2
    /\ files[last.peer].chunks = {}
    /\ out = <<ErrFrame(last.peer, "FailChecksum")>>

\* C11: round trip.  Whenever the client's File::send has returned success,
\* the committed path of the receiver holds exactly the bytes of the client's
\* file, whatever the order in which the chunks arrived and were written.
C11_RoundTrip ==
    client.state = "Ok" => disk[CommittedPath] = Present(client.bytes)

\* a three-byte file in chunks of two bytes was uploaded with one failure on the way
C11_Witness ==
    /\ client.state = "Ok"
    /\ client.bytes = <<1, 0, 1>>
    /\ client.chunk_size = 2
    /\ fails = 1
    /\ disk[CommittedPath] = Present(<<1, 0, 1>>)

\* the step handled a NEW frame and rejected it
RejectedNew == last'.op = "NEW" /\ last'.ret = "reply_err"

C13_RejectedNewFrame ==
    [][RejectedNew => queue' = queue /\ slots' = slots /\ pipe' = pipe]_vars

\* the step handled a NEW frame and inserted a File for it
AcceptedNew == last'.op = "NEW" /\ last'.ret = "ok"

\* C14: accepting a NEW is silent.  The step hands no frame to the router
\* socket; what it writes to the back-channel are CHUNK pulls only, and with
\* no free slot it writes nothing.
C14_SilentAccept ==
    [][AcceptedNew =>
          /\ out' = <<>>
          /\ \A k \in 1 .. Len(NewPulls) : NewPulls[k].body[1] = "CHUNK"
          /\ slots = 0 => pipe' = pipe
      ]_vars

\* abc's NEW was accepted while def held the only slot: nothing was sent
C14_Witness ==
    /\ last.op = "NEW" /\ last.ret = "ok" /\ last.peer = "abc"
    /\ upload_slots = 1 /\ slots = 0
    /\ out = <<>> /\ pipe = <<>>
    /\ \E k \in Started : queue[k].router_id = "def"
    /\ \E k \in Unstarted : queue[k].router_id = "abc"
    /\ files["abc"].chunks # {}

\* C15: a CHUNK frame from a peer that has no File is answered with Err
\* "Invalid request" to that peer; the file table, the Arbitrator queue and
\* the slot counter are unchanged.
C15_ChunkWithoutFile ==
    [][(last'.op = "CHUNK" /\ last'.peer \notin DOMAIN files) =>
          /\ out' = <<[to |-> last'.peer, body |-> <<"Err", "Invalid request">>]>>
          /\ files' = files
          /\ queue' = queue
          /\ slots' = slots
      ]_vars

\* def sent CHUNK without a File while abc has a File and a queued chunk
C15_Witness ==
    /\ last.op = "CHUNK" /\ last.peer = "def"
    /\ "def" \notin DOMAIN files
    /\ "abc" \in DOMAIN files
    /\ queue # <<>>
    /\ out = <<[to |-> "def", body |-> <<"Err", "Invalid request">>]>>

\* C16: a CHUNK frame whose index is not in the pending map of the peer's
\* File is answered with Err "Chunk index not in file"; no write task is
\* scheduled, and the pending map and the error counter are unchanged.
C16_ChunkNotPending ==
    [][(/\ last'.op = "CHUNK"
        /\ last'.peer \in DOMAIN files
        /\ last'.index # None
        /\ last'.index \notin files[last'.peer].chunks) =>
          /\ out' = <<[to |-> last'.peer, body |-> <<"Err", "Chunk index not in file">>]>>
          /\ writing' = writing
          /\ sink_worker' = sink_worker
          /\ files'[last'.peer].chunks = files[last'.peer].chunks
          /\ files'[last'.peer].chunk_error_cnt = files[last'.peer].chunk_error_cnt
      ]_vars

\* abc sent CHUNK 0 again after chunk 0 was written
C16_Witness ==
    /\ last.op = "CHUNK" /\ last.peer = "abc" /\ last.index = 0
    /\ "abc" \in DOMAIN files
    /\ files["abc"].completed[0] = 1
    /\ out = <<[to |-> "abc", body |-> <<"Err", "Chunk index not in file">>]>>

\* C17: a router frame whose action is neither NEW nor CHUNK is answered with
\* an Err "Invalid request" reply to the peer, and the reactor goes on.
C17_UnknownAction ==
    [][last'.op = "other" =>
          /\ out' = <<[to |-> last'.peer, body |-> <<"Err", "Invalid request">>]>>
          /\ ~fatal'
      ]_vars

\* C18: a second NEW from a peer whose File is still active (chunks pending,
\* not failed) is rejected with Err "Invalid request"; the File and the
\* Arbitrator entries stay as they were.
C18_SecondNew ==
    [][(/\ last'.op = "NEW"
        /\ last'.peer \in DOMAIN files
        /\ files[last'.peer].chunks # {}
        /\ files[last'.peer].chunk_error_cnt < MAX_CHUNK_ERR) =>
          /\ out' = <<[to |-> last'.peer, body |-> <<"Err", "Invalid request">>]>>
          /\ files' = files
          /\ queue' = queue
          /\ slots' = slots
      ]_vars

\* C19: a sink frame whose router id has no File makes Server::recv return
\* an error without a reply; the file table, the Arbitrator queue and the
\* slot counter are unchanged.
C19_SinkWithoutFile ==
    [][(last'.op = "sink" /\ last'.peer \notin DOMAIN files) =>
          /\ fatal'
          /\ last'.ret = "fatal"
          /\ out' = <<>>
          /\ files' = files
          /\ queue' = queue
          /\ slots' = slots
      ]_vars

\* the timer's failure for an entry of a peer without a File was read from the sink
C19_Witness ==
    /\ fatal
    /\ last.op = "sink" /\ last.ret = "fatal"
    /\ last.peer \notin DOMAIN files
    /\ \E k \in Started : queue[k].router_id = last.peer /\ queue[k].index = last.index

\* the staging path of the File of the peer the step was about
StagingOf(p) == meta[p].upload_path

\* the bytes File::save hashed in the step: those of the staging file, which
\* is at the committed path afterwards if save renamed it
HashedBytes(p) ==
    IF disk'[StagingOf(p)].exists
    THEN disk'[StagingOf(p)].bytes
    ELSE disk'[CommittedPath].bytes

\* the step was a sink event that left the File complete and not failed
CompletedBySink ==
    /\ last'.op = "sink"
    /\ last'.ret = "ok"
    /\ files'[last'.peer].chunks = {}
    /\ files'[last'.peer].chunk_error_cnt < MAX_CHUNK_ERR

\* C20: when the chunk map becomes complete and the bytes in the staging file
\* do not hash to the crc announced in NEW, save() returns FailChecksum, no
\* file is renamed (the committed path and its backup are as before and the
\* staging file remains) and the peer is sent Err "Uploaded file does not
\* match expected CRC".
C20_ChecksumMismatch ==
    [][(CompletedBySink /\ meta[last'.peer].crc # calc_crc(HashedBytes(last'.peer))) =>
          /\ last'.save = "FailChecksum"
          /\ disk'[CommittedPath] = disk[CommittedPath]
          /\ disk'[BackupPath] = disk[BackupPath]
          /\ disk'[StagingOf(last'.peer)].exists
          /\ out' = <<[to |-> last'.peer,
                       body |-> <<"Err", "Uploaded file does not match expected CRC">>]>>
      ]_vars

\* a two-byte upload with a wrong crc was refused; the file that was at the
\* committed path is untouched and the staging file holds the upload
C20_Witness ==
    /\ last.op = "sink" /\ last.save = "FailChecksum"
    /\ client.bytes = <<0, 1>>
    /\ client.backup_existing = BackupSuffix
    /\ disk[CommittedPath] = Present(<<1>>)
    /\ disk[BackupPath] = Absent
    /\ disk[StagingPath(0)] = Present(<<0, 1>>)
    /\ out = <<[to |-> "abc", body |-> <<"Err", "Uploaded file does not match expected CRC">>]>>

\* the sink step ran File::save on bytes that hash to the announced crc
SavedMatching ==
    /\ CompletedBySink
    /\ meta[last'.peer].crc = calc_crc(HashedBytes(last'.peer))

\* C21: File.save() with a matching checksum succeeds and leaves the upload
\* at the committed path; the file that was at the committed path is at
\* committed path + suffix afterwards if and only if backup_existing is set
\* and the committed path existed (with backup_existing set and no file at
\* the committed path, save succeeds and only the committed path is created).
C21_BackupIff ==
    [][SavedMatching =>
          LET p == last'.peer
              backed == /\ meta[p].backup_existing # "None"
                        /\ disk[CommittedPath].exists
          IN /\ last'.save = "Ok"
             /\ ~disk'[StagingOf(p)].exists
             /\ disk'[CommittedPath].exists
             /\ disk'[BackupPath] = IF backed THEN disk[CommittedPath] ELSE disk[BackupPath]
      ]_vars

\* C22: a client that uploads the empty file (NEW with size 0 and the crc of
\* the empty content) eventually has File.send return success: the File has
\* no chunks, save() runs and the terminal Ok is sent.
C22_EmptyUpload ==
    (client.state = "loop" /\ client.bytes = <<>>) ~> (client.state = "Ok")

\* the step was one turn of the reply loop of File::send
ReplyTurn == inbox # <<>> /\ inbox' = Tail(inbox)

\* the frames the step wrote to the client's socket
Sent == SubSeq(wire', Len(wire) + 1, Len(wire'))

\* C23: File.send first emits one NEW frame (path, size, crc, chunk_size,
\* options) and then loops on replies: on "Ok" it returns success; on
\* "Err"|message it returns UploadError carrying the message; on "CHUNK"|index
\* for an index it holds it sends exactly one CHUNK(index, bytes) frame and
\* keeps looping; on a CHUNK for an index it does not hold it returns
\* ChunkIndex.  It sends no CHUNK frame that was not pulled and returns only
\* on a terminal frame or an error.
C23_SendLoop ==
    [][/\ (client.state = "open" /\ client' # client) =>
             /\ client'.state = "loop"
             /\ Sent = <<[action |-> "NEW", path |-> CommittedPath,
                          size |-> ToString(Len(client.bytes)),
                          crc |-> ToString(client.crc),
                          chunk_size |-> ToString(client.chunk_size),
                          options |-> [backup_existing |-> client.backup_existing,
                                       chunk_size |-> client.chunk_size]]>>
       /\ ReplyTurn =>
             LET body == Head(inbox).body
                 index == ParseU64(body[2], MaxU)
                 lo == client.chunk_size * index
                 hi == Min(client.chunk_size * (index + 1), Len(client.bytes))
             IN /\ body[1] = "Ok" => client'.state = "Ok" /\ Sent = <<>>
                /\ body[1] = "Err" =>
                      /\ client'.state = "UploadError"
                      /\ client'.error = body[2]
                      /\ Sent = <<>>
                /\ (body[1] = "CHUNK" /\ index \in client.chunks) =>
                      /\ client' = client
                      /\ Sent = <<[action |-> "CHUNK", index |-> body[2],
                                   data |-> SubSeq(client.bytes, lo + 1, hi)]>>
                /\ (body[1] = "CHUNK" /\ index \notin client.chunks) =>
                      client'.state = "ChunkIndex" /\ Sent = <<>>
       /\ (Len(wire') > Len(wire)) =>
             \/ client.state = "open"
             \/ ReplyTurn /\ Head(inbox).body[1] = "CHUNK"
       /\ (client.state = "loop" /\ client'.state # "loop") =>
             /\ ReplyTurn
             /\ \/ Head(inbox).body[1] \in {"Ok", "Err"}
                \/ client'.state = "ChunkIndex"
      ]_vars

\* the client of a three-byte file in chunks of two bytes was pulled chunk 1,
\* sent it, and returned ChunkIndex on a pull for chunk 2, which it does not hold
C23_Witness ==
    /\ client.state = "ChunkIndex"
    /\ client.bytes = <<1, 0, 1>>
    /\ client.chunk_size = 2
    /\ wire = <<[action |-> "CHUNK", index |-> "1", data |-> <<1>>]>>
    /\ inbox = <<>>

\* the indices of the pulls for peer p the step emitted, in order
PulledIndices(p) ==
    LET mine == SelectSeq(NewPulls, LAMBDA f : f.to = p)
    IN [n \in 1 .. Len(mine) |-> ParseU64(mine[n].body[2], MaxU)]

\* the pulls counted for p's File before the step: none if the step inserted the File
PullsBefore(p) ==
    IF last'.op = "NEW" /\ last'.peer = p /\ last'.ret = "ok" THEN ZeroPulls ELSE pulls[p]

\* every pull a step emits to a peer with a File is either for an index above
\* all indices pulled before, or the one reappearance a retry accounts for
PullOrder ==
    [][\A p \in Peers : p \in DOMAIN files' =>
          LET is == PulledIndices(p)
              seen(n, i) == PullsBefore(p)[i] + Cardinality({k \in 1 .. (n - 1) : is[k] = i})
          IN \A n \in 1 .. Len(is) :
                IF \A j \in Indices : j >= is[n] => seen(n, j) = 0
                THEN TRUE
                ELSE /\ files'[p].chunk_error_cnt >= 1
                     /\ seen(n, is[n]) + 1 <= 1 + files'[p].chunk_error_cnt
      ]_vars

\* the chunk of the one-chunk File of peer abc was retried and is pending
Retried ==
    IF "abc" \in DOMAIN files
    THEN /\ files["abc"].nchunks = 1
         /\ 0 \in files["abc"].chunks
         /\ files["abc"].chunk_error_cnt >= 1
    ELSE FALSE

\* index 0 was pulled a second time, or was written
PulledAgain ==
    \/ pulls["abc"][0] >= 2
    \/ IF "abc" \in DOMAIN files THEN 0 \notin files["abc"].chunks ELSE FALSE

\* a retry of index 0 of a one-chunk File is followed by its pull
RetryPulled == Retried ~> PulledAgain

\* C24: pull commands emitted to one peer carry strictly increasing chunk
\* indices until a retry occurs, and after a retry of index k a pull for k
\* reappears exactly once: not more than once per retry, and not zero times.
C24_PullOrder == PullOrder /\ RetryPulled

\* the payloads Chunk::send produces for the indices i .. final, concatenated
RECURSIVE Payloads(_, _, _, _)
Payloads(bytes, chunk_size, i, final) ==
    IF i > final THEN <<>>
    ELSE ChunkBytes(bytes, chunk_size, i) \o Payloads(bytes, chunk_size, i + 1, final)

\* C25: Chunk.send for index i of a file of n bytes in chunks of c bytes
\* transmits CHUNK | i | bytes where bytes is exactly the byte range
\* [c*i, min(c*(i+1), n)) of the file: a non-final chunk has length c, the
\* final chunk has length n - c*i, and the payloads of the indices
\* 0 .. ceil(n/c)-1 concatenated in order are the whole file.
C25_ChunkRange ==
    [][(ReplyTurn /\ Sent # <<>>) =>
          LET f == Sent[1]
              i == ParseU64(f.index, MaxU)
              c == client.chunk_size
              n == Len(client.bytes)
              final == Ceil(n, c) - 1
              lo == c * i
              hi == IF c * (i + 1) < n THEN c * (i + 1) ELSE n
          IN /\ f.action = "CHUNK"
             /\ i \in 0 .. final
             /\ f.data = [k \in 1 .. (hi - lo) |-> client.bytes[lo + k]]
             /\ i < final => Len(f.data) = c
             /\ i = final => Len(f.data) = n - c * i
             /\ Payloads(client.bytes, c, 0, final) = client.bytes
      ]_vars

\* a file of chunk_size + 1 bytes was sent: a first chunk of two bytes and a
\* final chunk of one byte
C25_Witness ==
    /\ client.bytes = <<0, 1, 1>>
    /\ client.chunk_size = 2
    /\ wire = <<[action |-> "CHUNK", index |-> "0", data |-> <<0, 1>>],
                [action |-> "CHUNK", index |-> "1", data |-> <<1>>]>>

\* the step replaced the File of peer p by a new one
Replaced(p) == last'.op = "NEW" /\ last'.peer = p /\ last'.ret = "ok"

\* C26: a File's chunk-error counter never decreases and never exceeds
\* MAX_CHUNK_ERR; is_error() holds exactly when the counter has reached
\* MAX_CHUNK_ERR; and a failed completion processed once the counter is
\* saturated changes nothing: no re-queue, no pull, and the File's pending
\* map, the Arbitrator queue and the slot counter stay as they were.
C26_ErrorCounter ==
    [][/\ \A p \in DOMAIN files' :
             /\ files'[p].chunk_error_cnt <= MAX_CHUNK_ERR
             /\ is_error(files'[p]) <=> files'[p].chunk_error_cnt = MAX_CHUNK_ERR
             /\ (p \in DOMAIN files /\ ~Replaced(p)) =>
                   files'[p].chunk_error_cnt >= files[p].chunk_error_cnt
       /\ (/\ last'.op = "sink"
           /\ ~last'.success
           /\ last'.peer \in DOMAIN files
           /\ files[last'.peer].chunk_error_cnt = MAX_CHUNK_ERR) =>
             /\ last'.ret = "ok"
             /\ files' = files
             /\ queue' = queue
             /\ slots' = slots
             /\ NewPulls = <<>>
      ]_vars

\* with one slot, the sixth failure of the only chunk was processed with the
\* counter saturated: five re-queued entries behind the first, one pull
C26_Witness ==
    /\ upload_slots = 1
    /\ last.op = "sink" /\ ~last.success /\ last.peer = "abc"
    /\ "abc" \in DOMAIN files
    /\ files["abc"].chunk_error_cnt = MAX_CHUNK_ERR
    /\ files["abc"].chunks = {0}
    /\ fails = 6
    /\ sink_timer = <<>>
    /\ Len(queue) = 6
    /\ pulls["abc"][0] = 1

\* the step was a wakeup of the timer that posted something
TimerPosted == Len(sink_timer') > Len(sink_timer)

\* positions of the started entries whose elapsed time is at least CHUNK_TIMEOUT
Overdue == {k \in 1 .. Len(queue) :
               queue[k].timestamp # None /\ queue[k].timestamp >= CHUNK_TIMEOUT}

\* C27: a wakeup of the timer posts a synthetic failure router_id | index |
\* "0" to the sink for every started entry whose elapsed time is at least
\* CHUNK_TIMEOUT, in queue order, and for no unstarted or unexpired entry; it
\* adds, removes and modifies no queue entry and leaves the slot counter, the
\* Files and the back-channel as they were.
C27_TimerReadOnly ==
    [][TimerPosted =>
          LET at == SelectSeq([k \in 1 .. Len(queue) |-> k], LAMBDA k : k \in Overdue)
          IN /\ SubSeq(sink_timer', Len(sink_timer) + 1, Len(sink_timer')) =
                   [n \in 1 .. Len(at) |->
                       [router_id |-> queue[at[n]].router_id,
                        index |-> queue[at[n]].index, flag |-> "0"]]
             /\ SubSeq(sink_timer', 1, Len(sink_timer)) = sink_timer
             /\ queue' = queue
             /\ slots' = slots
             /\ files' = files
             /\ pipe' = pipe
      ]_vars

\* the timer woke up with an expired entry, a started entry that has not
\* expired and an unstarted entry in the queue, and posted one failure
C27_Witness ==
    /\ last = NoStep
    /\ sink_timer = <<SinkMsg("abc", 0, "0")>>
    /\ fails = 3
    /\ Len(queue) = 3
    /\ is_expired(queue[1])
    /\ is_started(queue[2]) /\ ~is_expired(queue[2])
    /\ ~is_started(queue[3])

\* the number of admitted pulls of peer p that reached their timeout: no
\* entry is released while the peer does not answer, so each is in the queue
ExpiredPulls(q, p) ==
    Cardinality({k \in 1 .. Len(q) : q[k].router_id = p /\ is_expired(q[k])})

\* C28: each expiry of an admitted pull raises the owning File's error
\* counter by exactly one.  For a File whose pulls are never answered, a
\* failure that is processed below MAX_CHUNK_ERR adds one to the counter, and
\* the counter never exceeds the number of pulls that have expired: it goes up
\* once per timeout of a pull, not once per timer wakeup.
C28_OneCountPerExpiry ==
    [][/\ RetriedFailure =>
             files'[last'.peer].chunk_error_cnt = files[last'.peer].chunk_error_cnt + 1
       /\ \A p \in DOMAIN files' :
             files'[p].chunk_error_cnt <= ExpiredPulls(queue', p)
      ]_vars

\* peer p has a File that is neither complete nor failed
Active(p) ==
    IF p \in DOMAIN files
    THEN ~is_complete(files[p]) /\ ~is_error(files[p])
    ELSE FALSE

\* C29: in every state where a peer has no active (non-terminated) File, the
\* Arbitrator queue contains no TimedChunk for that peer, started (holding a
\* slot) or not.
C29_NoOrphans ==
    \A p \in Peers : ~Active(p) => \A k \in 1 .. Len(queue) : queue[k].router_id # p

\* C30: the Arbitrator queue never holds two TimedChunks for the same peer
\* and index: a re-queue after a timeout does not leave a second entry for
\* the pair.
C30_NoDuplicates ==
    \A j \in 1 .. Len(queue) : \A k \in 1 .. Len(queue) :
        (queue[j].router_id = queue[k].router_id /\ queue[j].index = queue[k].index)
            => j = k

\* the number of completion frames for the write task t in the bag b
CompletionsOf(b, t) ==
    CopiesIn(SinkMsg(t[1], t[2], "1"), b) + CopiesIn(SinkMsg(t[1], t[2], "0"), b)

\* C31: chunk writes are serialized per chunk.  A CHUNK frame that is
\* accepted while a write task of the same Chunk is in flight first joins
\* that task, which posts its completion, and then leaves exactly one task
\* for the chunk in flight; every write task that ends in a step posts
\* exactly one completion frame router_id | index | flag on the sink; the
\* flag is "1" only if the payload was written at offset chunk_size * index
\* of the staging file, and with "0" the file is as it was.
C31_SerialWrites ==
    [][LET accepted == /\ wire # <<>>
                       /\ Len(wire') < Len(wire)
                       /\ Head(wire).action = "CHUNK"
                       /\ out' = <<>>
           t0 == <<ClientId, ParseU64(Head(wire).index, MaxU)>>
           rejoined == IF accepted /\ t0 \in writing THEN {t0} ELSE {}
           ended == (writing \ writing') \cup rejoined
           sunk == last'.op = "sink" /\ client' = client /\ wire' = wire
           read == IF sunk /\ sink_timer' = sink_timer
                   THEN SetToBag({SinkMsg(last'.peer, last'.index,
                                          IF last'.success THEN "1" ELSE "0")})
                   ELSE EmptyBag
           posted == (sink_worker' (+) read) (-) sink_worker
           written(t) == [disk EXCEPT ![payload[t].path] =
                             Present(WriteAt(disk[payload[t].path].bytes,
                                             payload[t].chunk_size * t[2],
                                             payload[t].data))]
       IN /\ DOMAIN payload' = writing'
          /\ BagCardinality(posted) = Cardinality(ended)
          /\ \A t \in ended : CompletionsOf(posted, t) = 1
          /\ accepted =>
                /\ writing' = writing \cup {t0}
                /\ payload'[t0].data = Head(wire).data
                /\ payload'[t0].path = meta[ClientId].upload_path
          /\ (ended # {} /\ ~sunk) =>
                \A t \in ended :
                   /\ BagIn(SinkMsg(t[1], t[2], "1"), posted) => disk' = written(t)
                   /\ BagIn(SinkMsg(t[1], t[2], "0"), posted) => disk' = disk
      ]_vars

\* a second CHUNK frame for index 0 was accepted while the write task of the
\* first was in flight: that task was joined and posted its completion, and
\* one task for the chunk is in flight
C31_Witness ==
    /\ writing = {<<"abc", 0>>}
    /\ BagCardinality(sink_worker) = 1
    /\ CompletionsOf(sink_worker, <<"abc", 0>>) = 1
    /\ "abc" \in DOMAIN files /\ 0 \in files["abc"].chunks
    /\ pulls["abc"][0] = 2
    /\ last = NoStep
    /\ out = <<>>

\* C32: when one sink event leaves a File both failed (counter =
\* MAX_CHUNK_ERR) and complete (pending map empty), the reactor treats it as
\* failed: save() is not called, nothing is renamed (the committed path and
\* its backup are as before and the staging file remains) and no Ok is sent.
C32_FailedWins ==
    [][(/\ last'.op = "sink"
        /\ client' = client /\ wire' = wire
        /\ last'.ret = "ok"
        /\ files'[last'.peer].chunk_error_cnt = MAX_CHUNK_ERR
        /\ files'[last'.peer].chunks = {}) =>
          /\ last'.save = "none"
          /\ disk'[CommittedPath] = disk[CommittedPath]
          /\ disk'[BackupPath] = disk[BackupPath]
          /\ disk'[StagingOf(last'.peer)].exists
          /\ \A k \in 1 .. Len(out') : out'[k].body # <<"Ok">>
      ]_vars

\* after five timeouts the client's chunk was written in full: the File is
\* complete and failed, the upload is still in the staging file and the
\* committed path is as it was
C32_Witness ==
    /\ last.op = "sink" /\ last.success /\ last.save = "none"
    /\ "abc" \in DOMAIN files
    /\ files["abc"].chunk_error_cnt = MAX_CHUNK_ERR
    /\ files["abc"].chunks = {}
    /\ client.bytes = <<1>>
    /\ disk[StagingPath(0)] = Present(<<1>>)
    /\ disk[CommittedPath] = Absent
    /\ out = <<[to |-> "abc", body |-> <<>>]>>

\* C33: progress.  With a slot budget of at least one, a client that answers
\* every pull with the matching CHUNK frame, writes that succeed and weak
\* fairness of the reactor, the write tasks and the timer, an accepted NEW
\* with at least one chunk eventually receives its terminal Ok.
C33_Progress ==
    (upload_slots >= 1 /\ client.state = "loop" /\ Len(client.bytes) >= 1)
        ~> (client.state = "Ok")

\* C34: with a client that sends one well-formed NEW and CHUNK frames only in
\* answer to pulls it received (possibly late, after a timeout), Server.recv
\* never returns an error on the sink path, in any interleaving of write
\* completions and failures posted by the timer.
C34_NoFatalSink ==
    ~(fatal /\ last.op = "sink" /\ last.ret = "fatal")

\* C35: handling a NEW frame always terminates: for every size and chunk_size
\* a peer can announce, chunk_size = 0 with size > 0 included, the
\* chunk-creation loop ends and the reactor goes on to its next event; it is
\* never left inside the loop.
C35_NewTerminates ==
    [][last'.op = "NEW" => last'.ret # "looping"]_vars

\* C36: the reactor and the timer task never deadlock on the queue lock and
\* the sink: in no reachable state does the timer hold the read guard of the
\* queue, blocked sending a synthetic failure to a full sink, while the
\* reactor, the sink's only reader, waits for the write guard.
C36_NoDeadlock ==
    ~(/\ timer_at \in 1 .. Len(queue)
      /\ is_expired(queue[timer_at])
      /\ SinkLoad >= SinkCap
      /\ reactor = "sink")

====
